---- MODULE Spec2Model ----
(***************************************************************************)
(* Model of my_gis_tool.py: the Phase I ESA mapping agent.                 *)
(*                                                                         *)
(* Strings are sequences of one-character strings, so that str.strip,      *)
(* str.split, str.upper, "in" and endswith are computed character by       *)
(* character as Python computes them.                                      *)
(*                                                                         *)
(* Distances are integers counted in sub-units of a thousandth of a mile   *)
(* (DistResolution sub-units per 0.001 mi); round(dist, 3) is rounding to  *)
(* the nearest multiple of DistResolution, ties to even.                   *)
(***************************************************************************)
EXTENDS Integers, Sequences, FiniteSets, TLC

VARIABLES
    pc,             \* position of the script: "load", "progress", "classify", "done", "halt", or "idle"
    uploaded_files, \* st.file_uploader result (line 88)
    f_idx,          \* position of the file loading loop (line 104)
    all_data,       \* frames that qualified (line 102)
    errors,         \* st.error reports, by file name (line 113)
    master_df,      \* concatenated rows (line 116)
    total_rows,     \* len(master_df) (line 122)
    i,              \* enumerate index of the main loop (line 124)
    progress,       \* numerator last given to prog_bar.progress (line 126); 0 when none/cleared
    matches,        \* line 117
    oob,            \* line 117
    ngcs,           \* line 117
    calls,          \* per row index, the outcomes of the geolocator.geocode calls issued for it (line 142)
    search_radius,  \* slider value (line 80), in distance sub-units
    probe           \* argument/results of a pure helper under test

vars == <<pc, uploaded_files, f_idx, all_data, errors, master_df, total_rows, i,
          progress, matches, oob, ngcs, calls, search_radius, probe>>

pipeline_vars == <<pc, uploaded_files, f_idx, all_data, errors, master_df, total_rows, i,
                   progress, matches, oob, ngcs, calls, search_radius>>

----------------------------------------------------------------------------
(* Bounds of the model *)

MaxFiles == 2         \* uploaded files per run
MaxRecords == 2       \* rows over all uploaded files
DistSpread == 2       \* resolved points lie within radius +/- DistSpread sub-units
DistResolution == 2   \* distance sub-units per thousandth of a mile
MaxRawLen == 5        \* length of the raw cell texts given to clean_address_string
MaxAddrLen == 6       \* length of the strings given to is_vague_address

(* Program constants, in thousandths of a mile *)
SliderDefault == 250  \* st.slider(..., 0.1, 2.0, 0.25): default value

----------------------------------------------------------------------------
(* Python string primitives *)

Lowers == <<"a","b","c","d","e","f","g","h","i","j","k","l","m",
            "n","o","p","q","r","s","t","u","v","w","x","y","z">>
Uppers == <<"A","B","C","D","E","F","G","H","I","J","K","L","M",
            "N","O","P","Q","R","S","T","U","V","W","X","Y","Z">>
Digits == {"0","1","2","3","4","5","6","7","8","9"}
Whitespace == {" ", "\t", "\n", "\r"}

CharUpper(c) ==
    IF \E k \in 1..26 : Lowers[k] = c
    THEN Uppers[CHOOSE k \in 1..26 : Lowers[k] = c]
    ELSE c

CharLower(c) ==
    IF \E k \in 1..26 : Uppers[k] = c
    THEN Lowers[CHOOSE k \in 1..26 : Uppers[k] = c]
    ELSE c

upper(s) == [k \in 1..Len(s) |-> CharUpper(s[k])]
lower(s) == [k \in 1..Len(s) |-> CharLower(s[k])]

isdigit(c) == c \in Digits
isspace(c) == c \in Whitespace

RECURSIVE lstrip(_)
lstrip(s) ==
    IF s = <<>> THEN <<>>
    ELSE IF isspace(Head(s)) THEN lstrip(Tail(s)) ELSE s

RECURSIVE rstrip(_)
rstrip(s) ==
    IF s = <<>> THEN <<>>
    ELSE IF isspace(s[Len(s)]) THEN rstrip(SubSeq(s, 1, Len(s) - 1)) ELSE s

strip(s) == rstrip(lstrip(s))

endswith(s, suf) ==
    /\ Len(s) >= Len(suf)
    /\ SubSeq(s, Len(s) - Len(suf) + 1, Len(s)) = suf

\* term in s
RECURSIVE contains(_, _)
contains(term, s) ==
    IF Len(s) < Len(term) THEN FALSE
    ELSE IF SubSeq(s, 1, Len(term)) = term THEN TRUE
    ELSE contains(term, Tail(s))

\* s.split(sep) for a one-character sep: empty tokens are kept
RECURSIVE split_acc(_, _, _, _)
split_acc(s, sep, cur, toks) ==
    IF s = <<>> THEN Append(toks, cur)
    ELSE IF Head(s) = sep THEN split_acc(Tail(s), sep, <<>>, Append(toks, cur))
    ELSE split_acc(Tail(s), sep, Append(cur, Head(s)), toks)

split(s, sep) == split_acc(s, sep, <<>>, <<>>)

\* s.split(): split on whitespace runs, no empty tokens
RECURSIVE split_ws_acc(_, _, _)
split_ws_acc(s, cur, toks) ==
    IF s = <<>> THEN (IF cur = <<>> THEN toks ELSE Append(toks, cur))
    ELSE IF isspace(Head(s))
         THEN split_ws_acc(Tail(s), <<>>, IF cur = <<>> THEN toks ELSE Append(toks, cur))
         ELSE split_ws_acc(Tail(s), Append(cur, Head(s)), toks)

split_ws(s) == split_ws_acc(s, <<>>, <<>>)

\* sep.join(toks)
RECURSIVE join(_, _)
join(sep, toks) ==
    IF toks = <<>> THEN <<>>
    ELSE IF Len(toks) = 1 THEN toks[1]
    ELSE toks[1] \o sep \o join(sep, Tail(toks))

----------------------------------------------------------------------------
(* is_vague_address, lines 23-52 *)

vague_terms == <<
    <<"I","N","T","E","R","S","E","C">>,
    <<"C","O","R","N","E","R">>,
    <<" ","O","F"," ">>,
    <<"N","O","R","T","H"," ","O","F">>,
    <<"S","O","U","T","H"," ","O","F">>,
    <<"E","A","S","T"," ","O","F">>,
    <<"W","E","S","T"," ","O","F">>,
    <<"1"," ","M","I">>,
    <<"2"," ","M","I">>,
    <<"3"," ","M","I">>,
    <<"M","I","L","E">>,
    <<"N","E","A","R">>,
    <<"A","D","J","A","C","E","N","T">>,
    <<"B","E","H","I","N","D">>,
    <<"V","I","C","I","N","I","T","Y">>,
    <<"A","P","P","R","O","X">>,
    <<"&">> >>

\* a plausible slip: the argument is upper-cased but not stripped
is_vague_address_nostrip(addr_in) ==
    LET addr == upper(addr_in)
        first_word == split(addr, " ")[1]
    IN  IF \E t \in 1..Len(vague_terms) : contains(vague_terms[t], addr) THEN TRUE
        ELSE IF ~ \E k \in 1..Len(first_word) : isdigit(first_word[k]) THEN TRUE
        ELSE FALSE

is_vague_address(addr_in) ==
    LET addr == strip(upper(addr_in))
        first_word == split(addr, " ")[1]
    IN  IF \E t \in 1..Len(vague_terms) : contains(vague_terms[t], addr) THEN TRUE
        ELSE IF ~ \E k \in 1..Len(first_word) : isdigit(first_word[k]) THEN TRUE
        ELSE FALSE

----------------------------------------------------------------------------
(* clean_address_string, lines 54-60.  A raw cell is [isna, text]: isna is *)
(* pd.isna(addr_raw) and text is str(addr_raw).                            *)

DotZero == <<".", "0">>
NanText == <<"n", "a", "n">>

\* a plausible slip: the final " ".join(addr.split()) is left out
clean_address_string_nojoin(addr_raw) ==
    IF addr_raw.isna THEN <<>>
    ELSE LET addr == strip(addr_raw.text)
         IN  IF lower(addr) = NanText THEN <<>>
             ELSE IF endswith(addr, DotZero) THEN SubSeq(addr, 1, Len(addr) - 2)
             ELSE addr

clean_address_string(addr_raw) ==
    IF addr_raw.isna THEN <<>>
    ELSE LET addr == strip(addr_raw.text)
         IN  IF lower(addr) = NanText THEN <<>>
             ELSE LET cut == IF endswith(addr, DotZero)
                             THEN SubSeq(addr, 1, Len(addr) - 2)
                             ELSE addr
                  IN  join(<<" ">>, split_ws(cut))

\* the cell a string value makes
StrCell(s) == [isna |-> FALSE, text |-> s]
\* a missing cell: NaN, whose str() is "nan"
NaNCell == [isna |-> TRUE, text |-> NanText]

----------------------------------------------------------------------------
(* Rows and buckets.  A row is a pandas Series: a function from its keys   *)
(* to values; name is the row's index in master_df.                        *)

\* row[key] = value
setitem(row, key, value) ==
    [k \in (DOMAIN row) \cup {key} |-> IF k = key THEN value ELSE row[k]]

\* geopy.distance.geodesic(a, b) for two points of one meridian, in sub-units
geodesic(a, b) == IF a[1] >= b[1] THEN a[1] - b[1] ELSE b[1] - a[1]

\* round(dist, 3): nearest thousandth, ties to the even thousandth
round3(dist) ==
    LET q == dist \div DistResolution
        r == dist % DistResolution
    IN  IF 2 * r < DistResolution THEN q * DistResolution
        ELSE IF 2 * r > DistResolution THEN (q + 1) * DistResolution
        ELSE IF q % 2 = 0 THEN q * DistResolution
        ELSE (q + 1) * DistResolution

\* site_coords (line 94), the origin of the model's coordinates
site_coords == <<0, 0>>

\* lines 135-137
on_vague(S, row) ==
    LET r1 == setitem(row, "status", "NGC (Orphan)")
        r2 == setitem(r1, "reason", "Vague Description / Intersection")
    IN  [S EXCEPT !.ngcs = Append(@, r2)]

\* lines 163-165
on_not_found(S, row) ==
    LET r1 == setitem(row, "status", "NGC (Not Found)")
        r2 == setitem(r1, "reason", "Google returned zero results")
    IN  [S EXCEPT !.ngcs = Append(@, r2)]

\* a plausible slip: the handler reports a fixed text instead of str(e)
on_error_fixed_reason(S, row, msg) ==
    LET r1 == setitem(row, "status", "Error")
        r2 == setitem(r1, "reason", "Geocoding failed")
    IN  [S EXCEPT !.ngcs = Append(@, r2)]

\* a plausible slip: the handler records nothing
on_error_drop(S, row, msg) == S

\* lines 167-171
on_error(S, row, msg) ==
    LET r1 == setitem(row, "status", "Error")
        r2 == setitem(r1, "reason", msg)
    IN  [S EXCEPT !.ngcs = Append(@, r2)]

\* a plausible slip: strict comparison
on_located_strict(S, row, loc, radius) ==
    IF ~loc.finite
    THEN on_error(S, row, "Point coordinates must be finite")
    ELSE LET found_coords == <<loc.latitude, loc.longitude>>
             dist == geodesic(site_coords, found_coords)
             r1 == setitem(row, "mapped_lat", loc.latitude)
             r2 == setitem(r1, "mapped_lon", loc.longitude)
             r3 == setitem(r2, "miles_from_site", round3(dist))
             r4 == setitem(r3, "google_address", loc.address)
         IN  IF dist < radius
             THEN [S EXCEPT !.matches = Append(@, setitem(r4, "status", "Match"))]
             ELSE [S EXCEPT !.oob = Append(@, setitem(r4, "status", "Out of Bounds"))]

\* a plausible slip: the comparison is inverted
on_located_inverted(S, row, loc, radius) ==
    IF ~loc.finite
    THEN on_error(S, row, "Point coordinates must be finite")
    ELSE LET found_coords == <<loc.latitude, loc.longitude>>
             dist == geodesic(site_coords, found_coords)
             r1 == setitem(row, "mapped_lat", loc.latitude)
             r2 == setitem(r1, "mapped_lon", loc.longitude)
             r3 == setitem(r2, "miles_from_site", round3(dist))
             r4 == setitem(r3, "google_address", loc.address)
         IN  IF dist >= radius
             THEN [S EXCEPT !.matches = Append(@, setitem(r4, "status", "Match"))]
             ELSE [S EXCEPT !.oob = Append(@, setitem(r4, "status", "Out of Bounds"))]

\* a plausible slip: the row is enriched before the distance is computed
on_located_enrich_first(S, row, loc, radius) ==
    LET r1 == setitem(row, "mapped_lat", loc.latitude)
        r2 == setitem(r1, "mapped_lon", loc.longitude)
    IN  IF ~loc.finite
        THEN on_error(S, r2, "Point coordinates must be finite")
        ELSE LET found_coords == <<loc.latitude, loc.longitude>>
                 dist == geodesic(site_coords, found_coords)
                 r3 == setitem(r2, "miles_from_site", round3(dist))
                 r4 == setitem(r3, "google_address", loc.address)
             IN  IF dist <= radius
                 THEN [S EXCEPT !.matches = Append(@, setitem(r4, "status", "Match"))]
                 ELSE [S EXCEPT !.oob = Append(@, setitem(r4, "status", "Out of Bounds"))]

\* lines 144-160, the "if loc:" branch.  geodesic() rejects a point whose
\* coordinates are not finite with ValueError, before any key is set; the
\* exception reaches the handler of line 167.
on_located(S, row, loc, radius) ==
    IF ~loc.finite
    THEN on_error(S, row, "Point coordinates must be finite")
    ELSE LET found_coords == <<loc.latitude, loc.longitude>>
             dist == geodesic(site_coords, found_coords)
             r1 == setitem(row, "mapped_lat", loc.latitude)
             r2 == setitem(r1, "mapped_lon", loc.longitude)
             r3 == setitem(r2, "miles_from_site", round3(dist))
             r4 == setitem(r3, "google_address", loc.address)
         IN  IF dist <= radius
             THEN [S EXCEPT !.matches = Append(@, setitem(r4, "status", "Match"))]
             ELSE [S EXCEPT !.oob = Append(@, setitem(r4, "status", "Out of Bounds"))]

\* a plausible slip: a no-match is tried a second time
geocode_step_retry(S, row, outcome, radius) ==
    LET n == IF outcome.kind = "none" THEN <<outcome, outcome>> ELSE <<outcome>>
        S1 == [S EXCEPT !.calls[row.name] = @ \o n]
    IN  CASE outcome.kind = "raise"  -> on_error(S1, row, outcome.msg)
          [] outcome.kind = "none"   -> on_not_found(S1, row)
          [] outcome.kind = "result" -> on_located(S1, row, outcome.loc, radius)

\* lines 141-171: one geolocator.geocode call and the routing of its outcome
geocode_step(S, row, outcome, radius) ==
    LET S1 == [S EXCEPT !.calls[row.name] = Append(@, outcome)]
    IN  CASE outcome.kind = "raise"  -> on_error(S1, row, outcome.msg)
          [] outcome.kind = "none"   -> on_not_found(S1, row)
          [] outcome.kind = "result" -> on_located(S1, row, outcome.loc, radius)

\* a plausible slip: progress counts the records already finished
progress_value_completed(idx) == idx

\* line 126: the numerator of prog_bar.progress((i + 1) / total_rows)
progress_value(idx) == idx + 1

AddressColumn == <<"a","d","d","r","e","s","s">>

\* line 109: df.columns.str.strip().str.lower()
standardize_columns(columns) == [k \in 1..Len(columns) |-> lower(strip(columns[k]))]

\* lines 105-113: one iteration of the file loading loop
load_file(L, f, name) ==
    IF ~f.readable
    THEN [L EXCEPT !.errors = Append(@, name)]
    ELSE LET columns == standardize_columns(f.columns)
         IN  IF \E k \in 1..Len(columns) : columns[k] = AddressColumn
             THEN [L EXCEPT !.all_data = Append(@, f.cells)]
             ELSE L

\* line 116: pd.concat(all_data, ignore_index=True)
RECURSIVE concat(_)
concat(frames) ==
    IF frames = <<>> THEN <<>> ELSE Head(frames) \o concat(Tail(frames))

----------------------------------------------------------------------------
(* The inputs of a run *)

\* uploaded column headers: one that needs strip and lower, one that is no address
Headers == { <<"A","d","d","r","e","s","s"," ">>, <<"S","i","t","e">> }

\* raw values of the address column: a missing cell, an empty text, a house
\* number stored as a float
PipelineCells == { NaNCell,
                   StrCell(<<>>),
                   StrCell(<<"7", ".", "0">>) }

CellSeqs(budget) == UNION { [1..n -> PipelineCells] : n \in 0..budget }

\* a file pd.read_csv / pd.read_excel rejects
UnreadableFile == [readable |-> FALSE, columns |-> <<>>, cells |-> <<>>]

\* the files of at most budget rows
Files(budget) ==
    { UnreadableFile } \cup
    { [readable |-> TRUE, columns |-> <<h>>, cells |-> c] : h \in Headers, c \in CellSeqs(budget) }

\* the uploads of n files with at most budget rows in all
RECURSIVE UploadsOf(_, _)
UploadsOf(n, budget) ==
    IF n = 0 THEN { <<>> }
    ELSE UNION { { <<f>> \o rest : rest \in UploadsOf(n - 1, budget - Len(f.cells)) }
                    : f \in Files(budget) }

Uploads == UNION { UploadsOf(n, MaxRecords) : n \in 1..MaxFiles }

\* what geolocator.geocode can do: raise, return None, return a Location
ErrorMessages == { "Service timed out", "The provided API key is invalid." }

Locations(radius) ==
    { [latitude |-> radius + d, longitude |-> 0, address |-> "G", finite |-> TRUE]
        : d \in (-DistSpread)..DistSpread }
    \cup { [latitude |-> 0, longitude |-> 0, address |-> "G", finite |-> FALSE] }

Outcomes(radius) ==
    { [kind |-> "raise", msg |-> m] : m \in ErrorMessages }
    \cup { [kind |-> "none"] }
    \cup { [kind |-> "result", loc |-> l] : l \in Locations(radius) }

\* the slider value the model runs with (the default), in sub-units
Radii == { SliderDefault * DistResolution }

NoProbe == [fn |-> "none"]

----------------------------------------------------------------------------
(* The run: lines 91-178 *)

Init ==
    /\ pc = "load"
    /\ uploaded_files \in Uploads
    /\ search_radius \in Radii
    /\ f_idx = 1
    /\ all_data = <<>>
    /\ errors = <<>>
    /\ master_df = <<>>
    /\ total_rows = 0
    /\ i = 0
    /\ progress = 0
    /\ matches = <<>>
    /\ oob = <<>>
    /\ ngcs = <<>>
    /\ calls = <<>>
    /\ probe = NoProbe

\* lines 104-113
LoadFile ==
    /\ pc = "load"
    /\ f_idx <= Len(uploaded_files)
    /\ LET L == load_file([all_data |-> all_data, errors |-> errors],
                          uploaded_files[f_idx], f_idx)
       IN  /\ all_data' = L.all_data
           /\ errors' = L.errors
    /\ f_idx' = f_idx + 1
    /\ UNCHANGED <<pc, uploaded_files, master_df, total_rows, i, progress,
                   matches, oob, ngcs, calls, search_radius, probe>>

\* line 115, all_data empty: nothing to classify
NoData ==
    /\ pc = "load"
    /\ f_idx > Len(uploaded_files)
    /\ all_data = <<>>
    /\ pc' = "halt"
    /\ UNCHANGED <<uploaded_files, f_idx, all_data, errors, master_df, total_rows, i,
                   progress, matches, oob, ngcs, calls, search_radius, probe>>

\* lines 115-122
StartAnalysis ==
    /\ pc = "load"
    /\ f_idx > Len(uploaded_files)
    /\ all_data # <<>>
    /\ LET cells == concat(all_data)
       IN  /\ master_df' = [k \in 1..Len(cells) |-> [name |-> k - 1, address |-> cells[k]]]
           /\ total_rows' = Len(cells)
           /\ calls' = [k \in 0..(Len(cells) - 1) |-> <<>>]
    /\ matches' = <<>>
    /\ oob' = <<>>
    /\ ngcs' = <<>>
    /\ progress' = 0
    /\ i' = 0
    /\ pc' = "progress"
    /\ UNCHANGED <<uploaded_files, f_idx, all_data, errors, search_radius, probe>>

\* lines 124-127: the next row is taken and progress is reported
ReportProgress ==
    /\ pc = "progress"
    /\ i < total_rows
    /\ progress' = progress_value(i)
    /\ pc' = "classify"
    /\ UNCHANGED <<uploaded_files, f_idx, all_data, errors, master_df, total_rows, i,
                   matches, oob, ngcs, calls, search_radius, probe>>

Buckets == [matches |-> matches, oob |-> oob, ngcs |-> ngcs, calls |-> calls]

\* lines 130-138: the row is vague
ClassifyVague ==
    /\ pc = "classify"
    /\ LET row == master_df[i + 1]
           addr == clean_address_string(row.address)
       IN  /\ is_vague_address(addr)
           /\ LET S == on_vague(Buckets, row)
              IN  /\ matches' = S.matches
                  /\ oob' = S.oob
                  /\ ngcs' = S.ngcs
                  /\ calls' = S.calls
    /\ i' = i + 1
    /\ pc' = "progress"
    /\ UNCHANGED <<uploaded_files, f_idx, all_data, errors, master_df, total_rows,
                   progress, search_radius, probe>>

\* lines 130-174: the row is geocoded
Geocode ==
    /\ pc = "classify"
    /\ LET row == master_df[i + 1]
           addr == clean_address_string(row.address)
       IN  /\ ~is_vague_address(addr)
           /\ \E outcome \in Outcomes(search_radius) :
                LET S == geocode_step(Buckets, row, outcome, search_radius)
                IN  /\ matches' = S.matches
                    /\ oob' = S.oob
                    /\ ngcs' = S.ngcs
                    /\ calls' = S.calls
    /\ i' = i + 1
    /\ pc' = "progress"
    /\ UNCHANGED <<uploaded_files, f_idx, all_data, errors, master_df, total_rows,
                   progress, search_radius, probe>>

\* lines 176-178: the loop is over, the progress bar is cleared
Finish ==
    /\ pc = "progress"
    /\ i = total_rows
    /\ progress' = 0
    /\ pc' = "done"
    /\ UNCHANGED <<uploaded_files, f_idx, all_data, errors, master_df, total_rows, i,
                   matches, oob, ngcs, calls, search_radius, probe>>

Next ==
    \/ LoadFile
    \/ NoData
    \/ StartAnalysis
    \/ ReportProgress
    \/ ClassifyVague
    \/ Geocode
    \/ Finish

Spec == Init /\ [][Next]_vars

----------------------------------------------------------------------------
(* clean_address_string applied once and twice to every short raw text *)

RawAlphabet == {"0", ".", "n", "a", "N", " "}
RawTexts == UNION { [1..n -> RawAlphabet] : n \in 0..MaxRawLen }

IdlePipeline ==
    /\ pc = "idle"
    /\ uploaded_files = <<>>
    /\ search_radius = 0
    /\ f_idx = 1
    /\ all_data = <<>>
    /\ errors = <<>>
    /\ master_df = <<>>
    /\ total_rows = 0
    /\ i = 0
    /\ progress = 0
    /\ matches = <<>>
    /\ oob = <<>>
    /\ ngcs = <<>>
    /\ calls = <<>>

InitNormalize ==
    /\ IdlePipeline
    /\ \E t \in RawTexts :
         probe = [fn |-> "clean_address_string", stage |-> 0,
                  x |-> StrCell(t), y |-> <<>>, z |-> <<>>]

NormalizeOnce ==
    /\ probe.fn = "clean_address_string"
    /\ probe.stage = 0
    /\ probe' = [probe EXCEPT !.stage = 1, !.y = clean_address_string(probe.x)]
    /\ UNCHANGED pipeline_vars

NormalizeTwice ==
    /\ probe.fn = "clean_address_string"
    /\ probe.stage = 1
    /\ probe' = [probe EXCEPT !.stage = 2, !.z = clean_address_string(StrCell(probe.y))]
    /\ UNCHANGED pipeline_vars

NextNormalize ==
    \/ NormalizeOnce
    \/ NormalizeTwice

SpecNormalize == InitNormalize /\ [][NextNormalize]_vars

----------------------------------------------------------------------------
(* is_vague_address applied to every short address *)

AddrAlphabet == {" ", "7", "&", "o", "F"}
AddrTexts == UNION { [1..n -> AddrAlphabet] : n \in 0..MaxAddrLen }

InitVague ==
    /\ IdlePipeline
    /\ \E t \in AddrTexts :
         probe = [fn |-> "is_vague_address", stage |-> 0, s |-> t, v |-> FALSE]

CheckVague ==
    /\ probe.fn = "is_vague_address"
    /\ probe.stage = 0
    /\ probe' = [probe EXCEPT !.stage = 1, !.v = is_vague_address(probe.s)]
    /\ UNCHANGED pipeline_vars

NextVague == CheckVague

SpecVague == InitVague /\ [][NextVague]_vars

----------------------------------------------------------------------------
(* Vocabulary of the properties *)

Bucketed == Len(matches) + Len(oob) + Len(ngcs)

Running == pc \in {"progress", "classify", "done"}

\* how often row k occurs in bucket b
Count(b, k) == Cardinality({ j \in 1..Len(b) : b[j].name = k })

\* the row k as it stands in bucket b
RowIn(b, k) == b[CHOOSE j \in 1..Len(b) : b[j].name = k]

OnlyInNgcs(k) == Count(ngcs, k) = 1 /\ Count(matches, k) = 0 /\ Count(oob, k) = 0
OnlyInMatches(k) == Count(matches, k) = 1 /\ Count(ngcs, k) = 0 /\ Count(oob, k) = 0
OnlyInOob(k) == Count(oob, k) = 1 /\ Count(matches, k) = 0 /\ Count(ngcs, k) = 0

OrphanStatuses == {"NGC (Orphan)", "NGC (Not Found)", "Error"}

\* the raw cell of row k and its cleaned address
CellOf(k) == master_df[k + 1].address
AddrOf(k) == clean_address_string(CellOf(k))

\* the keys the loop adds on the located path
EnrichmentKeys == {"mapped_lat", "mapped_lon", "miles_from_site", "google_address"}

----------------------------------------------------------------------------
\* C1: when the processing loop finishes, every input record stands in exactly
\* one of the three buckets, exactly once, with one terminal status that fits
\* the bucket, so len(matches) + len(oob) + len(ngcs) = N; while the loop runs
\* the buckets hold exactly the records already processed.
C1_EveryRecordInOneBucket ==
    /\ Running => Bucketed = i
    /\ pc = "done" =>
         /\ Bucketed = total_rows
         /\ \A k \in 0..(total_rows - 1) :
              \/ OnlyInMatches(k) /\ RowIn(matches, k)["status"] = "Match"
              \/ OnlyInOob(k) /\ RowIn(oob, k)["status"] = "Out of Bounds"
              \/ OnlyInNgcs(k) /\ RowIn(ngcs, k)["status"] \in OrphanStatuses

\* C1 witness: a finished run over several records, some orphaned after an
\* exception or a no-match, some located
C1_Witness ==
    /\ pc = "done"
    /\ total_rows >= 2
    /\ Len(ngcs) >= 1
    /\ Len(matches) + Len(oob) >= 1
    /\ \E k \in DOMAIN calls : calls[k] # <<>> /\ calls[k][1].kind \in {"raise", "none"}

\* C2: a record whose geocode call raised stands in the orphan bucket and in
\* no other, with status Error and the exception's message as reason, and the
\* records after it are processed all the same.
C2_ExceptionToOrphan ==
    \A k \in DOMAIN calls :
        (calls[k] # <<>> /\ calls[k][1].kind = "raise") =>
            /\ OnlyInNgcs(k)
            /\ RowIn(ngcs, k)["status"] = "Error"
            /\ RowIn(ngcs, k)["reason"] = calls[k][1].msg
            /\ Running
            /\ i > k
            /\ pc = "done" => \A j \in (k + 1)..(total_rows - 1) :
                                Count(matches, j) + Count(oob, j) + Count(ngcs, j) = 1

\* C2 witness: a finished run in which a record raised and a later record
\* was geocoded
C2_Witness ==
    /\ pc = "done"
    /\ \E k \in DOMAIN calls : \E j \in DOMAIN calls :
         /\ k < j
         /\ calls[k] # <<>> /\ calls[k][1].kind = "raise"
         /\ calls[j] # <<>>

\* C3: a processed record has had no geocode call when its cleaned address is
\* vague and exactly one otherwise; a vague record is an orphan with the fixed
\* reason; a missing or empty address cleans to the empty string, is vague and
\* is never geocoded.
C3_GeocodeCallCount ==
    \A k \in DOMAIN calls :
        LET vague == is_vague_address(AddrOf(k))
        IN  /\ Len(calls[k]) <= 1
            /\ k >= i => calls[k] = <<>>
            /\ (Running /\ k < i) => Len(calls[k]) = (IF vague THEN 0 ELSE 1)
            /\ (Running /\ k < i /\ vague) =>
                 /\ OnlyInNgcs(k)
                 /\ RowIn(ngcs, k)["status"] = "NGC (Orphan)"
                 /\ RowIn(ngcs, k)["reason"] = "Vague Description / Intersection"
            /\ (CellOf(k).isna \/ CellOf(k).text = <<>>) =>
                 /\ AddrOf(k) = <<>>
                 /\ vague
                 /\ calls[k] = <<>>

\* C3 witness: a finished run with a missing address that was not geocoded
\* and a no-match that was not tried again
C3_Witness ==
    /\ pc = "done"
    /\ \E k \in DOMAIN calls : CellOf(k).isna /\ calls[k] = <<>> /\ OnlyInNgcs(k)
    /\ \E k \in DOMAIN calls : Len(calls[k]) = 1 /\ calls[k][1].kind = "none"

\* C4: a record whose geocode call returned a location at a computed distance
\* d from the site is a Match when d <= search_radius and Out of Bounds
\* otherwise (inclusive boundary).
C4_InclusiveRadius ==
    \A k \in DOMAIN calls :
        (calls[k] # <<>> /\ calls[k][1].kind = "result" /\ calls[k][1].loc.finite) =>
            LET lat == calls[k][1].loc.latitude
                d == IF lat >= site_coords[1] THEN lat - site_coords[1]
                     ELSE site_coords[1] - lat
            IN  IF d <= search_radius
                THEN OnlyInMatches(k) /\ RowIn(matches, k)["status"] = "Match"
                ELSE OnlyInOob(k) /\ RowIn(oob, k)["status"] = "Out of Bounds"

\* C4 witness: a point at exactly the radius was matched
C4_Witness ==
    \E k \in DOMAIN calls :
        /\ calls[k] # <<>> /\ calls[k][1].kind = "result" /\ calls[k][1].loc.finite
        /\ calls[k][1].loc.latitude = search_radius
        /\ OnlyInMatches(k)

----------------------------------------------------------------------------
\* C5 as stated: clean_address_string(clean_address_string(x)) equals
\* clean_address_string(x) for every string x.
C5_Idempotent ==
    (probe.fn = "clean_address_string" /\ probe.stage = 2) => probe.z = probe.y

\* C5 amended: clean_address_string(clean_address_string(x)) equals
\* clean_address_string(x) for every string x whose cleaned form neither ends
\* in ".0" nor reads "nan" in any letter case.
C5_IdempotentOnSettled ==
    (/\ probe.fn = "clean_address_string"
     /\ probe.stage = 2
     /\ ~endswith(probe.y, DotZero)
     /\ lower(probe.y) # NanText) => probe.z = probe.y

\* C5 witness: whitespace before a trailing ".0" was cleaned, twice, to the
\* same non-empty text
C5_Witness ==
    /\ probe.fn = "clean_address_string"
    /\ probe.stage = 2
    /\ endswith(probe.x.text, <<" ", ".", "0">>)
    /\ probe.y # <<>>
    /\ ~endswith(probe.y, DotZero)
    /\ lower(probe.y) # NanText
    /\ probe.z = probe.y

----------------------------------------------------------------------------
\* C6 as stated: when progress k/total is reported, exactly k records have
\* already been placed in a bucket.  (pc = "classify" is the state a report
\* leaves.)
C6_ProgressCountsCompleted ==
    pc = "classify" => Bucketed = progress

\* C6 amended: when progress k/total is reported, exactly k - 1 records have
\* been placed in a bucket and record k is the one about to be classified, so
\* the report k = total precedes the classification of the last record; the
\* bucket count catches up with the reported k once record k is classified.
C6_ProgressCountsStarted ==
    /\ pc = "classify" => (progress = i + 1 /\ Bucketed = progress - 1)
    /\ pc = "progress" => Bucketed = progress

\* C6 witness: total/total has been reported and the last record is not yet
\* in a bucket
C6_Witness ==
    /\ pc = "classify"
    /\ total_rows >= 2
    /\ progress = total_rows
    /\ Bucketed = total_rows - 1

----------------------------------------------------------------------------
\* the files that parsed but have no address column after standardizing
NoAddressFiles ==
    { n \in 1..Len(uploaded_files) :
        /\ uploaded_files[n].readable
        /\ \A k \in 1..Len(uploaded_files[n].columns) :
             lower(strip(uploaded_files[n].columns[k])) # AddressColumn }

QualifyingFiles ==
    { n \in 1..Len(uploaded_files) :
        /\ uploaded_files[n].readable
        /\ n \notin NoAddressFiles }

RECURSIVE QualifyingRows(_)
QualifyingRows(n) ==
    IF n = 0 THEN 0
    ELSE QualifyingRows(n - 1)
         + (IF n \in QualifyingFiles THEN Len(uploaded_files[n].cells) ELSE 0)

\* C7: in a run over several files of which some qualify, every file that
\* parsed but has no address column (after trimming and lower-casing the
\* column names) has been reported as an error, its rows are excluded, and
\* the run goes on to process exactly the rows of the qualifying files.
C7_NoAddressFileReported ==
    (Running /\ Len(uploaded_files) >= 2) =>
        /\ total_rows = QualifyingRows(Len(uploaded_files))
        /\ \A n \in NoAddressFiles : \E e \in 1..Len(errors) : errors[e] = n

\* the part of C7 the code keeps: the rows of a file without address column
\* are excluded and the rows of the qualifying files are all processed
C7_RowsOfQualifyingFilesOnly ==
    Running => total_rows = QualifyingRows(Len(uploaded_files))

----------------------------------------------------------------------------
\* t occurs in s
OccursIn(t, s) ==
    \E k \in 1..(Len(s) - Len(t) + 1) : SubSeq(s, k, k + Len(t) - 1) = t

HasVagueTerm(s) == \E t \in 1..Len(vague_terms) : OccursIn(vague_terms[t], s)

\* no character of s before its first single space is a digit
NoDigitLead(s) ==
    \A k \in 1..Len(s) : (\A j \in 1..k : s[j] # " ") => s[k] \notin Digits

\* s without its leading and trailing whitespace
Trimmed(s) ==
    LET solid == { k \in 1..Len(s) : s[k] \notin Whitespace }
    IN  IF solid = {} THEN <<>>
        ELSE SubSeq(s, CHOOSE k \in solid : \A j \in solid : k <= j,
                       CHOOSE k \in solid : \A j \in solid : k >= j)

\* C8 as stated: is_vague_address(s) is true exactly when the upper-cased s
\* contains a term of the vocabulary or the first token of s split on single
\* spaces contains no digit.
C8_VagueOnRawString ==
    (probe.fn = "is_vague_address" /\ probe.stage = 1) =>
        (probe.v <=> (HasVagueTerm(upper(probe.s)) \/ NoDigitLead(probe.s)))

\* C8 amended: is_vague_address(s) is true exactly when s, upper-cased and
\* with its leading and trailing whitespace removed, contains a term of the
\* vocabulary or the first token of that trimmed string split on single
\* spaces contains no digit.
C8_VagueOnTrimmedString ==
    (probe.fn = "is_vague_address" /\ probe.stage = 1) =>
        (probe.v <=> (HasVagueTerm(Trimmed(upper(probe.s)))
                        \/ NoDigitLead(Trimmed(upper(probe.s)))))

\* C8 witness: an address with a numeric first token was found vague for its
\* "&", or one with a leading space and a numeric token was found not vague
C8_Witness ==
    /\ probe.fn = "is_vague_address"
    /\ probe.stage = 1
    /\ \/ probe.v /\ probe.s = <<"7", " ", "&">>
       \/ ~probe.v /\ probe.s = <<" ", "7">>

----------------------------------------------------------------------------
HasAll(row, keys) == keys \subseteq DOMAIN row
HasNone(row, keys) == keys \cap DOMAIN row = {}

\* C9 as stated: a bucketed record carries resolved latitude and longitude,
\* distance, provider address and the search string used exactly when its
\* status is Match or Out of Bounds; every orphan has a reason.
C9_EnrichmentWithSearchString ==
    LET keys == EnrichmentKeys \cup {"search_string"}
    IN  /\ \A j \in 1..Len(matches) : HasAll(matches[j], keys)
        /\ \A j \in 1..Len(oob) : HasAll(oob[j], keys)
        /\ \A j \in 1..Len(ngcs) : HasNone(ngcs[j], keys) /\ "reason" \in DOMAIN ngcs[j]

\* C9 amended: a bucketed record carries resolved latitude and longitude,
\* rounded distance and provider address exactly when its status is Match or
\* Out of Bounds; no orphan (vague, not found, error, also an exception raised
\* after the geocoder returned) carries any of them, every orphan has a
\* reason, and no record carries the search string used.
C9_EnrichmentOnLocatedOnly ==
    /\ \A j \in 1..Len(matches) :
         /\ HasAll(matches[j], EnrichmentKeys)
         /\ matches[j]["status"] = "Match"
    /\ \A j \in 1..Len(oob) :
         /\ HasAll(oob[j], EnrichmentKeys)
         /\ oob[j]["status"] = "Out of Bounds"
    /\ \A j \in 1..Len(ngcs) :
         /\ HasNone(ngcs[j], EnrichmentKeys)
         /\ ngcs[j]["status"] \in OrphanStatuses
         /\ "reason" \in DOMAIN ngcs[j]
    /\ \A j \in 1..Len(matches \o oob \o ngcs) :
         DOMAIN (matches \o oob \o ngcs)[j]
            \subseteq {"name", "address", "status", "reason"} \cup EnrichmentKeys

\* C9 witness: a located record and an orphan whose exception was raised
\* after the geocoder had returned a location
C9_Witness ==
    /\ Len(matches) + Len(oob) >= 1
    /\ \E k \in DOMAIN calls :
         /\ calls[k] # <<>> /\ calls[k][1].kind = "result" /\ ~calls[k][1].loc.finite
         /\ OnlyInNgcs(k)

----------------------------------------------------------------------------
\* C10 as stated: the rounded distance of every Match is <= the radius and
\* the rounded distance of every Out of Bounds record is > the radius.
C10_RoundedDistanceStrict ==
    /\ \A j \in 1..Len(matches) : matches[j]["miles_from_site"] <= search_radius
    /\ \A j \in 1..Len(oob) : oob[j]["miles_from_site"] > search_radius

\* C10 amended: the rounded distance of every Match is <= the radius rounded
\* to 3 decimals and the rounded distance of every Out of Bounds record is >=
\* it: an Out of Bounds record can be reported at exactly the radius.
C10_RoundedDistanceWeak ==
    /\ \A j \in 1..Len(matches) : matches[j]["miles_from_site"] <= round3(search_radius)
    /\ \A j \in 1..Len(oob) : oob[j]["miles_from_site"] >= round3(search_radius)

\* C10 witness: an Out of Bounds record reported at exactly the radius
C10_Witness ==
    \E j \in 1..Len(oob) :
        /\ oob[j]["miles_from_site"] = search_radius
        /\ calls[oob[j].name][1].loc.latitude > search_radius

====
